---- MODULE Spec2Model ----
(***************************************************************************)
(* A model of bin/filter_fasta_by_list.py: the target parser               *)
(* (parse_targets), the record reader (fasta_records), the accession       *)
(* matcher (extract_header_accession) and the filtering pass               *)
(* (filter_fasta, main).                                                   *)
(*                                                                         *)
(* A Python str is a sequence of one-character strings.  An Optional[str]  *)
(* is a record [some, val].                                                *)
(***************************************************************************)
EXTENDS Integers, Sequences, FiniteSets, TLC

\* ------------------------------------------------------------------------
\* Characters and the str methods the program uses
\* ------------------------------------------------------------------------

Upper == {"A","B","C","D","E","F","G","H","I","J","K","L","M",
          "N","O","P","Q","R","S","T","U","V","W","X","Y","Z"}

Lower == {"a","b","c","d","e","f","g","h","i","j","k","l","m",
          "n","o","p","q","r","s","t","u","v","w","x","y","z"}

Digit == {"0","1","2","3","4","5","6","7","8","9"}

\* The ASCII characters str.strip() and str.split() treat as whitespace.
Space == {" ", "\t", "\n", "\r", "\f"}

None == [some |-> FALSE, val |-> <<>>]

Some(s) == [some |-> TRUE, val |-> s]

\* Python truthiness of an Optional[str]: None and "" are false.
Truthy(o) == o.some /\ o.val # <<>>

\* s[a:b] with 1-based inclusive bounds; empty when a > b.
Slice(s, a, b) == IF a > b THEN <<>> ELSE SubSeq(s, a, b)

StartsWith(s, c) == Len(s) >= 1 /\ s[1] = c

Contains(s, c) == \E i \in 1..Len(s) : s[i] = c

\* str.replace(" ", "_")
Replace(s) == [i \in 1..Len(s) |-> IF s[i] = " " THEN "_" ELSE s[i]]

\* str.lstrip / str.rstrip / str.strip over a set of characters
RECURSIVE LStripSet(_, _)
LStripSet(s, cs) ==
  IF s # <<>> /\ s[1] \in cs THEN LStripSet(Tail(s), cs) ELSE s

RECURSIVE RStripSet(_, _)
RStripSet(s, cs) ==
  IF s # <<>> /\ s[Len(s)] \in cs THEN RStripSet(SubSeq(s, 1, Len(s) - 1), cs) ELSE s

\* str.strip()
Strip(s) == RStripSet(LStripSet(s, Space), Space)

\* str.rstrip("\n")
RStripNewline(s) == RStripSet(s, {"\n"})

\* str.strip("|")
StripBars(s) == RStripSet(LStripSet(s, {"|"}), {"|"})

\* The length of the longest prefix of s none of whose characters is in cs.
RECURSIVE SpanNot(_, _)
SpanNot(s, cs) ==
  IF s = <<>> \/ s[1] \in cs THEN 0 ELSE 1 + SpanNot(Tail(s), cs)

\* str.split(): the maximal runs of non-whitespace characters, in order.
RECURSIVE Split(_)

\* The first token of t, of length n, and the tokens after it.
SplitAt(t, n) == <<SubSeq(t, 1, n)>> \o Split(Slice(t, n + 1, Len(t)))

\* The tokens of t, which starts with no whitespace.
SplitStripped(t) == IF t = <<>> THEN <<>> ELSE SplitAt(t, SpanNot(t, Space))

Split(s) == SplitStripped(LStripSet(s, Space))

\* str.split(".")[0]
SplitDotFirst(s) == SubSeq(s, 1, SpanNot(s, {"."}))

\* str.isalpha(): non-empty and all letters.
IsAlpha(s) == s # <<>> /\ \A i \in 1..Len(s) : s[i] \in Upper \cup Lower

\* "".join(parts)
RECURSIVE Join(_)
Join(parts) == IF parts = <<>> THEN <<>> ELSE Head(parts) \o Join(Tail(parts))

\* ------------------------------------------------------------------------
\* ACCESSION_RE = [A-Z]{1,3}_\d+\.\d+
\* ------------------------------------------------------------------------

\* The length of the longest run of digits of s starting at position p.
RECURSIVE DigitRun(_, _)
DigitRun(s, p) ==
  IF p <= Len(s) /\ s[p] \in Digit THEN 1 + DigitRun(s, p + 1) ELSE 0

\* \.\d+ at position q, n2 being the digits after q: the position after the
\* match, 0 if none.
DotNumAt(s, q, n2) ==
  IF q <= Len(s) /\ s[q] = "." /\ n2 >= 1 THEN q + 1 + n2 ELSE 0

\* \d+\.\d+ at position p, n1 being the digits at p (each \d+ is greedy, and
\* giving a digit back never helps: the next character is then a digit).
IntDotNumAt(s, p, n1) ==
  IF n1 >= 1 THEN DotNumAt(s, p + n1, DigitRun(s, p + n1 + 1)) ELSE 0

\* \d+\.\d+ at position p: the position after the match, 0 if none.
NumDotNumAt(s, p) == IntDotNumAt(s, p, DigitRun(s, p))

\* The pattern at position i with exactly k letters.
AfterLetters(s, i, k) ==
  IF /\ i + k <= Len(s)
     /\ \A j \in i..(i + k - 1) : s[j] \in Upper
     /\ s[i + k] = "_"
    THEN NumDotNumAt(s, i + k + 1)
    ELSE 0

RECURSIVE MatchLetters(_, _, _)

\* The result e of a try with k letters, else a try with one letter fewer.
OrFewer(e, s, i, k) == IF e # 0 THEN e ELSE MatchLetters(s, i, k - 1)

\* [A-Z]{1,k} is greedy: the largest letter count is tried first.
MatchLetters(s, i, k) ==
  IF k < 1 THEN 0 ELSE OrFewer(AfterLetters(s, i, k), s, i, k)

\* The pattern at position i: the position after the match, 0 if none.
MatchAt(s, i) == MatchLetters(s, i, 3)

RECURSIVE SearchFrom(_, _)

\* The match found at position i ending before e, else the search goes on.
MatchOrNext(s, i, e) ==
  IF e # 0 THEN Some(SubSeq(s, i, e - 1)) ELSE SearchFrom(s, i + 1)

SearchFrom(s, i) ==
  IF i > Len(s) THEN None ELSE MatchOrNext(s, i, MatchAt(s, i))

\* ACCESSION_RE.search(s): m.group(0) of the leftmost match, None if none.
Search(s) == SearchFrom(s, 1)

\* re.match(r"^\d+\.\d+$", tok) on a token (no newline in it)
NumDotNumMatch(tok) == NumDotNumAt(tok, 1) = Len(tok) + 1

\* ------------------------------------------------------------------------
\* parse_targets
\* ------------------------------------------------------------------------

\* "m = ACCESSION_RE.search(acc); if m: acc = m.group(0)"
GroupOr(m, acc) == IF m.some THEN m.val ELSE acc

\* _add, lines 47-51: a candidate with a "|" is searched for the pattern.
BarSearch(acc) == IF Contains(acc, "|") THEN GroupOr(Search(acc), acc) ELSE acc

\* _add, lines 53-55.
KeepStandard(acc) == GroupOr(Search(acc), acc)

\* _add, lines 42-55, on the stripped candidate.
NormalizeStripped(acc) ==
  IF acc = <<>> THEN None ELSE Some(KeepStandard(BarSearch(Replace(acc))))

\* _add, lines 41-55: the candidate after normalization, None when it is
\* empty after strip().
Normalize(acc) == NormalizeStripped(Strip(acc))

\* _add without line 59: a versioned candidate leaves no_version alone.
AddToSets_VersionedOnly(acc, wv, nv) ==
  IF Contains(acc, ".")
    THEN [with_version |-> wv \cup {acc}, no_version |-> nv]
    ELSE [with_version |-> wv, no_version |-> nv \cup {acc}]

\* _add with line 59 adding acc itself, not acc.split(".")[0].
AddToSets_Unsplit(acc, wv, nv) ==
  IF Contains(acc, ".")
    THEN [with_version |-> wv \cup {acc}, no_version |-> nv \cup {acc}]
    ELSE [with_version |-> wv, no_version |-> nv \cup {acc}]

\* _add, lines 56-62: the two sets after the normalized candidate is added.
AddToSets(acc, wv, nv) ==
  IF Contains(acc, ".")
    THEN [with_version |-> wv \cup {acc},
          no_version   |-> nv \cup {SplitDotFirst(acc)}]
    ELSE [with_version |-> wv,
          no_version   |-> nv \cup {acc}]

\* _add on a normalized candidate n (None: the early return of line 43).
AddNormalized(n, wv, nv) ==
  IF n.some THEN AddToSets(n.val, wv, nv)
  ELSE [with_version |-> wv, no_version |-> nv]

\* _add(acc) on the sets wv, nv.
Add(acc, wv, nv) == AddNormalized(Normalize(acc), wv, nv)

\* Lines 69-81: the three strategies on a line, m being the search of line 70
\* and toks the tokens of line 75.
Strategies(m, toks) ==
  IF m.some THEN m
  ELSE IF Len(toks) >= 2 /\ IsAlpha(toks[1]) /\ NumDotNumMatch(toks[2])
    THEN Some(toks[1] \o <<"_">> \o toks[2])
  ELSE IF toks # <<>> THEN Some(toks[1])
  ELSE None

\* Lines 67-81 on the stripped line.
CandidateOfLine(line) ==
  IF line = <<>> \/ StartsWith(line, "#") THEN None
  ELSE Strategies(Search(Replace(line)), Split(line))

\* The body of the loop over the list file, lines 66-81: the candidate handed
\* to _add for one raw line, None when the line is skipped.
Candidate(raw) == CandidateOfLine(Strip(raw))

\* The sets after the candidate c of a line (None: no call of _add).
AddCandidate(c, wv, nv) ==
  IF c.some THEN Add(c.val, wv, nv)
  ELSE [with_version |-> wv, no_version |-> nv]

\* One iteration of the loop over the list file on the sets wv, nv.
ParseOne(raw, wv, nv) == AddCandidate(Candidate(raw), wv, nv)

\* ------------------------------------------------------------------------
\* extract_header_accession
\* ------------------------------------------------------------------------

\* "acc = m.group(0); return acc, acc.split(".")[0]"
Versions(m) == <<m, Some(SplitDotFirst(m.val))>>

\* Lines 119-126: the fallback on the first whitespace token, m2 being the
\* search of line 122.
FallbackResult(m2) == IF m2.some THEN Versions(m2) ELSE <<None, None>>

\* Lines 119-121: the first token, cleaned.
FirstToken(toks) == Replace(StripBars(IF toks # <<>> THEN toks[1] ELSE <<>>))

\* Lines 114-126 on the header without its ">", m being the search of line 114.
ExtractFrom(h, m) ==
  IF m.some THEN Versions(m) ELSE FallbackResult(Search(FirstToken(Split(h))))

\* Line 112.
DropMark(hdr) == IF StartsWith(hdr, ">") THEN Tail(hdr) ELSE hdr

\* Lines 114-126 on the header without its ">".
ExtractBody(h) == ExtractFrom(h, Search(h))

\* (with_version, no_version) of a header; (None, None) if no accession.
ExtractHeaderAccession(hdr) == ExtractBody(DropMark(hdr))

\* The match decision without the elif branch of lines 152-153.
MatchAcc_VersionedOnly(acc_wv, acc_nv, tw, tn, iv) ==
  Truthy(acc_wv) /\ acc_wv.val \in tw

\* The match decision with line 152 not testing ignore_version.
MatchAcc_IgnoresFlag(acc_wv, acc_nv, tw, tn, iv) ==
  IF Truthy(acc_wv) /\ acc_wv.val \in tw THEN TRUE
  ELSE IF Truthy(acc_nv) /\ acc_nv.val \in tn THEN TRUE
  ELSE FALSE

\* filter_fasta, lines 149-153: the match decision on the extracted pair.
MatchAcc(acc_wv, acc_nv, tw, tn, iv) ==
  IF Truthy(acc_wv) /\ acc_wv.val \in tw THEN TRUE
  ELSE IF iv /\ Truthy(acc_nv) /\ acc_nv.val \in tn THEN TRUE
  ELSE FALSE

MatchPair(acc, tw, tn, iv) == MatchAcc(acc[1], acc[2], tw, tn, iv)

\* filter_fasta, lines 148-153: the match decision for one header.
Match(hdr, tw, tn, iv) == MatchPair(ExtractHeaderAccession(hdr), tw, tn, iv)

WrapWidth == 60

\* The slices seq[i : i + 59], one character short, at the same steps.
RECURSIVE WrapFrom_ShortSlice(_, _)
WrapFrom_ShortSlice(seq, i) ==
  IF i > Len(seq) THEN <<>>
  ELSE <<Slice(seq, i, IF i + WrapWidth - 2 <= Len(seq) THEN i + WrapWidth - 2 ELSE Len(seq))>>
       \o WrapFrom_ShortSlice(seq, i + WrapWidth)

\* filter_fasta, lines 159-160: the slices seq[i : i + 60] for i in
\* range(0, len(seq), 60).
RECURSIVE WrapFrom(_, _)
WrapFrom(seq, i) ==
  IF i > Len(seq) THEN <<>>
  ELSE <<Slice(seq, i, IF i + WrapWidth - 1 <= Len(seq) THEN i + WrapWidth - 1 ELSE Len(seq))>>
       \o WrapFrom(seq, i + WrapWidth)

\* The lines filter_fasta prints for a matching record, lines 158-160.
RecordLines(header, seq) == <<header>> \o WrapFrom(seq, 1)

\* ------------------------------------------------------------------------
\* fasta_records
\* ------------------------------------------------------------------------

\* The generator's loop without line 99: seq_parts is not reset.
GenStep_KeepsParts(line, hdr, parts) ==
  IF StartsWith(line, ">")
    THEN [yield     |-> IF hdr.some THEN <<[header |-> hdr.val, seq |-> Join(parts)]>> ELSE <<>>,
          header    |-> Some(RStripNewline(line)),
          seq_parts |-> parts]
    ELSE [yield     |-> <<>>,
          header    |-> hdr,
          seq_parts |-> Append(parts, Strip(line))]

\* One iteration of the generator's loop, lines 95-101: the record it yields
\* (if any) and its locals afterwards.
GenStep(line, hdr, parts) ==
  IF StartsWith(line, ">")
    THEN [yield     |-> IF hdr.some THEN <<[header |-> hdr.val, seq |-> Join(parts)]>> ELSE <<>>,
          header    |-> Some(RStripNewline(line)),
          seq_parts |-> <<>>]
    ELSE [yield     |-> <<>>,
          header    |-> hdr,
          seq_parts |-> Append(parts, Strip(line))]

\* The generator without lines 102-103: the last record is never yielded.
GenFinal_DropsLast(hdr, parts) == <<>>

\* After the loop, lines 102-103: the final record, if one is in progress.
GenFinal(hdr, parts) ==
  IF hdr.some THEN <<[header |-> hdr.val, seq |-> Join(parts)]>> ELSE <<>>

\* ------------------------------------------------------------------------
\* filter_fasta and main: the state of one run
\* ------------------------------------------------------------------------

VARIABLES
  list_lines,            \* the list file: its raw lines
  fasta_lines,           \* the FASTA file: its raw lines
  out_path,              \* --out: None, "", "-" or a path
  ignore_version,        \* False with --no-ignore-version
  pc,                    \* where the run is
  li,                    \* parse_targets: the next line of the list file
  with_version,          \* parse_targets: with_version
  no_version,            \* parse_targets: no_version
  targets_with_version,  \* filter_fasta: the sets parse_targets returned
  targets_no_version,
  out_fh,                \* "unset", "stdout" or "file"
  closed,                \* the handles among "stdout", "file", "fasta" closed so far
  fasta_fh,              \* "unopened", "open"
  fi,                    \* the next line of the FASTA file
  header,                \* fasta_records: header
  seq_parts,             \* fasta_records: seq_parts
  exhausted,             \* fasta_records: the loop over the stream has ended
  rec,                   \* the record yielded to the loop body, <<>> if none
  total,
  kept,
  out,                   \* the lines printed to out_fh
  summary,               \* the summary printed to stderr, <<>> if none
  failed,                \* the stage whose I/O failed, "none" if none
  records,               \* history: the records yielded so far
  written                \* history: for each record written, its index in
                         \* records and the length of out before and after it

vars == <<list_lines, fasta_lines, out_path, ignore_version, pc, li,
          with_version, no_version, targets_with_version, targets_no_version,
          out_fh, closed, fasta_fh, fi, header, seq_parts, exhausted, rec,
          total, kept, out, summary, failed, records, written>>

inputs == <<list_lines, fasta_lines, out_path, ignore_version>>

parse_vars == <<li, with_version, no_version>>

gen_vars == <<fi, header, seq_parts, exhausted, rec, records>>

count_vars == <<total, kept, out, written>>

\* line 141: not out_path or out_path == "-"
UsesStdout(path) == ~Truthy(path) \/ path.val = <<"-">>

\* The finally clause without the test of line 162.
Finally_ClosesAny(fh, cl) == cl \cup {fh}

\* lines 161-163: the finally clause.
Finally(fh, cl) == IF fh # "stdout" THEN cl \cup {fh} ELSE cl

\* The state a run starts in, for given inputs.
InitRun(lists, fastas, paths, flags) ==
  /\ list_lines \in lists
  /\ fasta_lines \in fastas
  /\ out_path \in paths
  /\ ignore_version \in flags
  /\ pc = "start"
  /\ li = 1
  /\ with_version = {}
  /\ no_version = {}
  /\ targets_with_version = {}
  /\ targets_no_version = {}
  /\ out_fh = "unset"
  /\ closed = {}
  /\ fasta_fh = "unopened"
  /\ fi = 1
  /\ header = None
  /\ seq_parts = <<>>
  /\ exhausted = FALSE
  /\ rec = <<>>
  /\ total = 0
  /\ kept = 0
  /\ out = <<>>
  /\ summary = <<>>
  /\ failed = "none"
  /\ records = <<>>
  /\ written = <<>>

\* parse_targets, line 64: the list file opens.
ListOpen ==
  /\ pc = "start"
  /\ pc' = "parse"
  /\ UNCHANGED <<inputs, parse_vars, targets_with_version, targets_no_version,
                 out_fh, closed, fasta_fh, gen_vars, count_vars, summary, failed>>

\* parse_targets, line 64: the list file is missing or unreadable.
ListOpenFail ==
  /\ pc = "start"
  /\ pc' = "aborted"
  /\ failed' = "list"
  /\ UNCHANGED <<inputs, parse_vars, targets_with_version, targets_no_version,
                 out_fh, closed, fasta_fh, gen_vars, count_vars, summary>>

\* parse_targets, lines 65-81: one line of the list file.
ParseLine ==
  /\ pc = "parse"
  /\ li <= Len(list_lines)
  /\ \E r \in {ParseOne(list_lines[li], with_version, no_version)} :
       /\ with_version' = r.with_version
       /\ no_version' = r.no_version
  /\ li' = li + 1
  /\ UNCHANGED <<inputs, pc, targets_with_version, targets_no_version,
                 out_fh, closed, fasta_fh, gen_vars, count_vars, summary, failed>>

\* parse_targets, line 65: reading the list file fails.
ListReadFail ==
  /\ pc = "parse"
  /\ li <= Len(list_lines)
  /\ pc' = "aborted"
  /\ failed' = "list"
  /\ UNCHANGED <<inputs, parse_vars, targets_with_version, targets_no_version,
                 out_fh, closed, fasta_fh, gen_vars, count_vars, summary>>

\* parse_targets, line 83, and filter_fasta, line 139.
ParseReturn ==
  /\ pc = "parse"
  /\ li > Len(list_lines)
  /\ targets_with_version' = with_version
  /\ targets_no_version' = no_version
  /\ pc' = "open_out"
  /\ UNCHANGED <<inputs, parse_vars, out_fh, closed, fasta_fh, gen_vars,
                 count_vars, summary, failed>>

\* filter_fasta, lines 141-143.
OpenOut ==
  /\ pc = "open_out"
  /\ out_fh' = IF UsesStdout(out_path) THEN "stdout" ELSE "file"
  /\ kept' = 0
  /\ total' = 0
  /\ pc' = "open_fasta"
  /\ UNCHANGED <<inputs, parse_vars, targets_with_version, targets_no_version,
                 closed, fasta_fh, gen_vars, out, written, summary, failed>>

\* filter_fasta, line 141: the named output path cannot be opened.
OpenOutFail ==
  /\ pc = "open_out"
  /\ ~UsesStdout(out_path)
  /\ pc' = "aborted"
  /\ failed' = "out"
  /\ UNCHANGED <<inputs, parse_vars, targets_with_version, targets_no_version,
                 out_fh, closed, fasta_fh, gen_vars, count_vars, summary>>

\* filter_fasta, line 145: the FASTA file opens.
OpenFasta ==
  /\ pc = "open_fasta"
  /\ fasta_fh' = "open"
  /\ pc' = "read"
  /\ UNCHANGED <<inputs, parse_vars, targets_with_version, targets_no_version,
                 out_fh, closed, gen_vars, count_vars, summary, failed>>

\* filter_fasta, line 145: the FASTA file is missing or unreadable; the
\* finally clause runs.
OpenFastaFail ==
  /\ pc = "open_fasta"
  /\ closed' = Finally(out_fh, closed)
  /\ pc' = "aborted"
  /\ failed' = "fasta"
  /\ UNCHANGED <<inputs, parse_vars, targets_with_version, targets_no_version,
                 out_fh, fasta_fh, gen_vars, count_vars, summary>>

\* fasta_records, lines 94-101: one line of the stream; a header line after
\* the first yields the record in progress to the loop body.
GenLine ==
  /\ pc = "read"
  /\ ~exhausted
  /\ fi <= Len(fasta_lines)
  /\ \E g \in {GenStep(fasta_lines[fi], header, seq_parts)} :
       /\ header' = g.header
       /\ seq_parts' = g.seq_parts
       /\ rec' = g.yield
       /\ records' = records \o g.yield
       /\ pc' = IF g.yield # <<>> THEN "body" ELSE "read"
  /\ fi' = fi + 1
  /\ UNCHANGED <<inputs, parse_vars, targets_with_version, targets_no_version,
                 out_fh, closed, fasta_fh, exhausted, count_vars, summary, failed>>

\* fasta_records, lines 102-103: the stream has ended.
GenEnd ==
  /\ pc = "read"
  /\ ~exhausted
  /\ fi > Len(fasta_lines)
  /\ exhausted' = TRUE
  /\ \E y \in {GenFinal(header, seq_parts)} :
       /\ rec' = y
       /\ records' = records \o y
       /\ pc' = IF y # <<>> THEN "body" ELSE "read"
  /\ UNCHANGED <<inputs, parse_vars, targets_with_version, targets_no_version,
                 out_fh, closed, fasta_fh, fi, header, seq_parts, count_vars,
                 summary, failed>>

\* filter_fasta, line 146: reading the FASTA file fails; the with statement
\* closes it and the finally clause runs.
FastaReadFail ==
  /\ pc = "read"
  /\ ~exhausted
  /\ fi <= Len(fasta_lines)
  /\ closed' = Finally(out_fh, closed \cup {"fasta"})
  /\ pc' = "aborted"
  /\ failed' = "fasta"
  /\ UNCHANGED <<inputs, parse_vars, targets_with_version, targets_no_version,
                 out_fh, fasta_fh, gen_vars, count_vars, summary>>

\* filter_fasta, lines 147-160: the loop body on the record yielded.
Body ==
  /\ pc = "body"
  /\ total' = total + 1
  /\ \E m \in {Match(rec[1].header, targets_with_version, targets_no_version,
                     ignore_version)} :
       /\ kept' = IF m THEN kept + 1 ELSE kept
       /\ out' = IF m THEN out \o RecordLines(rec[1].header, rec[1].seq) ELSE out
       /\ written' = IF m THEN Append(written, [idx |-> Len(records), start |-> Len(out),
                                                  stop |-> Len(out')])
                     ELSE written
  /\ rec' = <<>>
  /\ pc' = "read"
  /\ UNCHANGED <<inputs, parse_vars, targets_with_version, targets_no_version,
                 out_fh, closed, fasta_fh, fi, header, seq_parts, exhausted,
                 records, summary, failed>>

\* filter_fasta, lines 158-160: a print to out_fh fails after n of the
\* record's lines were written; the FASTA file is closed and the finally
\* clause runs.
WriteFail ==
  /\ pc = "body"
  /\ Match(rec[1].header, targets_with_version, targets_no_version, ignore_version)
  /\ \E lines \in {RecordLines(rec[1].header, rec[1].seq)} :
       \E n \in 0..(Len(lines) - 1) : out' = out \o SubSeq(lines, 1, n)
  /\ total' = total + 1
  /\ kept' = kept + 1
  /\ closed' = Finally(out_fh, closed \cup {"fasta"})
  /\ pc' = "aborted"
  /\ failed' = "write"
  /\ UNCHANGED <<inputs, parse_vars, targets_with_version, targets_no_version,
                 out_fh, fasta_fh, gen_vars, written, summary>>

\* filter_fasta, lines 146 and 161-165: the generator is exhausted; the FASTA
\* file is closed, the finally clause runs, (kept, total) is returned.
LoopExit ==
  /\ pc = "read"
  /\ exhausted
  /\ closed' = Finally(out_fh, closed \cup {"fasta"})
  /\ pc' = "returned"
  /\ UNCHANGED <<inputs, parse_vars, targets_with_version, targets_no_version,
                 out_fh, fasta_fh, gen_vars, count_vars, summary, failed>>

\* main printing the summary whether or not filter_fasta returned.
Summary_AfterAbort ==
  /\ pc \in {"returned", "aborted"}
  /\ summary' = <<kept, total>>
  /\ pc' = "done"
  /\ UNCHANGED <<inputs, parse_vars, targets_with_version, targets_no_version,
                 out_fh, closed, fasta_fh, gen_vars, count_vars, failed>>

\* main, lines 185-192: the summary line.
Summary ==
  /\ pc = "returned"
  /\ summary' = <<kept, total>>
  /\ pc' = "done"
  /\ UNCHANGED <<inputs, parse_vars, targets_with_version, targets_no_version,
                 out_fh, closed, fasta_fh, gen_vars, count_vars, failed>>

Next ==
  \/ ListOpen
  \/ ListOpenFail
  \/ ParseLine
  \/ ListReadFail
  \/ ParseReturn
  \/ OpenOut
  \/ OpenOutFail
  \/ OpenFasta
  \/ OpenFastaFail
  \/ GenLine
  \/ GenEnd
  \/ FastaReadFail
  \/ Body
  \/ WriteFail
  \/ LoopExit
  \/ Summary

\* ------------------------------------------------------------------------
\* Inputs
\* ------------------------------------------------------------------------

MaxListLines == 1

MaxFastaLines == 2

MaxTargetLines == 2

MaxStreamLines == 4

MaxSeqLines == 3

TailLen == 10

\* The sequences over P of length at most n.
SeqsUpTo(P, n) == UNION {[1..k -> P] : k \in 0..n}

\* The raw lines of a text file with the given line contents; the last line
\* ends in a newline if eofnl.  (Iterating a file yields no empty string.)
FileLines(contents, eofnl) ==
  [i \in 1..Len(contents) |->
     IF i < Len(contents) \/ eofnl THEN contents[i] \o <<"\n">> ELSE contents[i]]

Files(P, n) ==
  {FileLines(c, e) : <<c, e>> \in
     {x \in SeqsUpTo(P, n) \X BOOLEAN :
        x[2] \/ (x[1] # <<>> /\ x[1][Len(x[1])] # <<>>)}}

NewlineFiles(P, n) == {FileLines(c, TRUE) : c \in SeqsUpTo(P, n)}

OutName == <<"o","u","t",".","f","a">>

\* out_path: absent, empty, "-", a named file
OutPaths == {None, Some(<<>>), Some(<<"-">>), Some(OutName)}

\* List lines: A_1.1 | A_1 | B 2.2 x
ListPool ==
  {<<"A","_","1",".","1">>,
   <<"A","_","1">>,
   <<"B"," ","2",".","2"," ","x">>}

\* FASTA lines: >A_1.1 x | >A_1.2 | >B_2.1 A_1.2 | >none | ACGT
FastaPool ==
  {<<">","A","_","1",".","1"," ","x">>,
   <<">","A","_","1",".","2">>,
   <<">","B","_","2",".","1"," ","A","_","1",".","2">>,
   <<">","n","o","n","e">>,
   <<"A","C","G","T">>}

\* The list of the documented example: NC_001806.1
ExampleList == <<<<"N","C","_","0","0","1","8","0","6",".","1","\n">>>>

\* >NC_001806.1 foo / ACGT / >NC_000001.1 bar / GG
ExampleFasta ==
  <<<<">","N","C","_","0","0","1","8","0","6",".","1"," ","f","o","o","\n">>,
    <<"A","C","G","T","\n">>,
    <<">","N","C","_","0","0","0","0","0","1",".","1"," ","b","a","r","\n">>,
    <<"G","G","\n">>>>

\* >ref|NC_001806.2| Human herpesvirus 1 / ACGT
ExampleFasta2 ==
  <<<<">","r","e","f","|","N","C","_","0","0","1","8","0","6",".","2","|"," ","H","u","m","a","n"," ","h","e","r","p","e","s","v","i","r","u","s"," ","1","\n">>,
    <<"A","C","G","T","\n">>>>

\* List lines exercising the three extraction strategies and _add:
\*   'NC_01.1'
\*   'NC 01.1 Human virus'
\*   'NC\t01.2'
\*   'ref|AB_2.1|'
\*   'NC_01'
\*   '# NC_03.1'
\*   '  '
\*   'v1.2.3'
\*   'abc 1.2'
\*   'ABCD\t12.3'
\*   'NC_01.2.3'
\*   '|x'
TargetPool ==
  {<<"N","C","_","0","1",".","1">>,
   <<"N","C"," ","0","1",".","1"," ","H","u","m","a","n"," ","v","i","r","u","s">>,
   <<"N","C","\t","0","1",".","2">>,
   <<"r","e","f","|","A","B","_","2",".","1","|">>,
   <<"N","C","_","0","1">>,
   <<"#"," ","N","C","_","0","3",".","1">>,
   <<" "," ">>,
   <<"v","1",".","2",".","3">>,
   <<"a","b","c"," ","1",".","2">>,
   <<"A","B","C","D","\t","1","2",".","3">>,
   <<"N","C","_","0","1",".","2",".","3">>,
   <<"|","x">>}

\* >NC_01.1 / ACGT
TargetFasta == <<<<">","N","C","_","0","1",".","1","\n">>, <<"A","C","G","T","\n">>>>

\* Stream lines: headers, sequence lines with whitespace, a blank line:
\*   '>A_1.1'
\*   '>x '
\*   'AC'
\*   '\tG T '
\*   ''
StreamPool ==
  {<<">","A","_","1",".","1">>,
   <<">","x"," ">>,
   <<"A","C">>,
   <<"\t","G"," ","T"," ">>,
   <<>>}

StreamList == <<<<"A","_","1",".","1","\n">>>>

\* A sequence line of n bases.
Bases(n) == [i \in 1..n |-> <<"A", "C", "G", "T">>[((i - 1) % 4) + 1]]

\* Sequence lines: blank, short, exactly one output line, one more than that.
SeqPool == {<<>>, Bases(TailLen), Bases(WrapWidth), Bases(WrapWidth + 1)}

WrapHeaders == {<<">","A","_","1",".","1">>, <<">","n","o","n","e">>}

WrapFastas ==
  {FileLines(<<h>> \o c, TRUE) : <<h, c>> \in WrapHeaders \X SeqsUpTo(SeqPool, MaxSeqLines)}

\* ------------------------------------------------------------------------
\* Specifications
\* ------------------------------------------------------------------------

\* The whole run on small list and FASTA files, and on the documented example.
Init ==
  \/ InitRun(NewlineFiles(ListPool, MaxListLines),
             NewlineFiles(FastaPool, MaxFastaLines),
             {Some(<<"-">>), Some(OutName)}, BOOLEAN)
  \/ InitRun({ExampleList}, {<<>>, ExampleFasta, ExampleFasta2},
             {Some(<<"-">>)}, BOOLEAN)

Spec == Init /\ [][Next]_vars

\* The run on every kind of output path.
InitIO ==
  InitRun(NewlineFiles(ListPool, MaxListLines),
          NewlineFiles({<<">","A","_","1",".","1"," ","x">>, <<"A","C","G","T">>}, MaxFastaLines),
          OutPaths, BOOLEAN)

SpecIO == InitIO /\ [][Next]_vars

\* parse_targets on list files of every kind of line.
InitTargets ==
  InitRun(NewlineFiles(TargetPool, MaxTargetLines), {TargetFasta},
          {Some(OutName)}, {TRUE})

SpecTargets == InitTargets /\ [][Next]_vars

\* fasta_records on line streams of every kind of line.
InitReader ==
  InitRun({StreamList}, Files(StreamPool, MaxStreamLines),
          {Some(<<"-">>), Some(OutName)}, {TRUE})

SpecReader == InitReader /\ [][Next]_vars

\* The output of records with sequences around the wrap width.
InitWrap ==
  InitRun({StreamList}, WrapFastas, {Some(<<"-">>), Some(OutName)}, {TRUE})

SpecWrap == InitWrap /\ [][Next]_vars

\* ------------------------------------------------------------------------
\* Properties
\* ------------------------------------------------------------------------

\* The records the loop body has decided on: all those counted in total,
\* except one whose output failed.
Decided == {k \in 1..total : failed = "write" => k < total}

\* Record k was written to the output.
Written(k) == \E j \in 1..Len(written) : written[j].idx = k

\* The lines record number j of written put on the output.
Group(j) == SubSeq(out, written[j].start + 1, written[j].stop)

\* u has the canonical form: 1 to 3 uppercase letters, underscore, digits,
\* dot, version digits.
IsAccession(u) ==
  \E k \in 1..3 : \E p \in (k + 3)..(Len(u) - 1) :
    /\ \A i \in 1..k : u[i] \in Upper
    /\ u[k + 1] = "_"
    /\ \A i \in (k + 2)..(p - 1) : u[i] \in Digit
    /\ u[p] = "."
    /\ \A i \in (p + 1)..Len(u) : u[i] \in Digit

\* u is a canonical accession with the version stripped.
IsStem(u) ==
  \E k \in 1..3 :
    /\ Len(u) >= k + 2
    /\ \A i \in 1..k : u[i] \in Upper
    /\ u[k + 1] = "_"
    /\ \A i \in (k + 2)..Len(u) : u[i] \in Digit

HasDot(t) == \E p \in 1..Len(t) : t[p] = "."

\* The substring of t before its first dot (t has one).
BeforeFirstDot(t) ==
  LET p == CHOOSE x \in 1..Len(t) : t[x] = "." /\ \A q \in 1..(x - 1) : t[q] # "."
  IN  SubSeq(t, 1, p - 1)

\* The header contains a canonical accession with the prefix and digits of t.
ContainsVersionOf(hdr, t) ==
  \E a \in 1..Len(hdr) : \E b \in a..Len(hdr) :
    /\ IsAccession(SubSeq(hdr, a, b))
    /\ BeforeFirstDot(SubSeq(hdr, a, b)) = BeforeFirstDot(t)

\* The accession pair extracted from the header of record k.
AccOf(k) == ExtractHeaderAccession(records[k].header)

\* C1: a record is written if and only if its extracted versioned accession
\* is in the versioned target set, or ignore_version is true and its
\* extracted unversioned accession is in the unversioned target set; a
\* record whose header yields (None, None) is never written.
C1_WrittenIffMatch ==
  \A k \in Decided :
    /\ Written(k) <=>
         \/ AccOf(k)[1].some /\ AccOf(k)[1].val \in targets_with_version
         \/ /\ ignore_version
            /\ AccOf(k)[2].some
            /\ AccOf(k)[2].val \in targets_no_version
    /\ AccOf(k) = <<None, None>> => ~Written(k)

\* A run that wrote a record matched only through the unversioned set and
\* left out a record whose header has no accession.
C1_Witness ==
  /\ pc = "done"
  /\ \E k \in Decided :
       /\ Written(k)
       /\ AccOf(k)[1].val \notin targets_with_version
       /\ AccOf(k)[2].val \in targets_no_version
  /\ \E k \in Decided : AccOf(k) = <<None, None>> /\ ~Written(k)

\* C2 as stated: with ignore_version true, a record whose header contains
\* PREFIX_DIGITS.v2 is kept when the list yielded the target PREFIX_DIGITS.v1.
C2_ContainingHeaderKept ==
  ignore_version =>
    \A k \in Decided : \A t \in targets_with_version :
      (IsAccession(t) /\ ContainsVersionOf(records[k].header, t)) => Written(k)

\* C2 as amended: with ignore_version true, a record is kept when the list
\* yielded the target PREFIX_DIGITS.v1 and the accession extracted from its
\* header (the leftmost occurrence of the canonical pattern) is
\* PREFIX_DIGITS.v2, for any version v2.
C2_ExtractedVersionKept ==
  ignore_version =>
    \A k \in Decided : \A t \in targets_with_version :
      ( /\ IsAccession(t)
        /\ AccOf(k)[1].some
        /\ BeforeFirstDot(AccOf(k)[1].val) = BeforeFirstDot(t) ) => Written(k)

\* The documented example: target NC_001806.1, header with NC_001806.2, kept.
C2_Witness ==
  /\ pc = "done"
  /\ ignore_version
  /\ list_lines = ExampleList
  /\ fasta_lines = ExampleFasta2
  /\ Written(1)
  /\ AccOf(1)[1].val \notin targets_with_version
  /\ summary = <<1, 1>>

\* C3: with ignore_version false a record is kept only if its versioned
\* header accession is in the versioned target set; a header accession with
\* another version than the target's is not kept, and a target present only
\* in the unversioned set keeps no record.
C3_ExactVersionOnly ==
  ~ignore_version =>
    \A k \in Decided :
      /\ Written(k) => (AccOf(k)[1].some /\ AccOf(k)[1].val \in targets_with_version)
      /\ \A t \in targets_with_version :
           ( /\ AccOf(k)[1].some
             /\ AccOf(k)[1].val \notin targets_with_version
             /\ BeforeFirstDot(AccOf(k)[1].val) = BeforeFirstDot(t) ) => ~Written(k)
      /\ ( /\ AccOf(k)[2].some
           /\ AccOf(k)[2].val \in targets_no_version
           /\ AccOf(k)[1].val \notin targets_with_version ) => ~Written(k)

\* A run without version-insensitive matching whose only target has no
\* version, which left out the record of that accession.
C3_Witness ==
  /\ pc = "done"
  /\ ~ignore_version
  /\ targets_with_version = {}
  /\ \E k \in Decided : AccOf(k)[2].val \in targets_no_version /\ ~Written(k)

\* The positions of the header lines of the FASTA file.
HeaderIdx == {i \in 1..Len(fasta_lines) : StartsWith(fasta_lines[i], ">")}

\* The position of the next header line after h, or one past the end.
NextHeader(h) ==
  LET later == {j \in HeaderIdx : j > h}
  IN  IF later = {} THEN Len(fasta_lines) + 1
      ELSE CHOOSE j \in later : \A x \in later : j <= x

\* The position of the k-th header line.
NthHeader(k) == CHOOSE h \in HeaderIdx : Cardinality({j \in HeaderIdx : j <= h}) = k

\* A line without its trailing newline.
WithoutNewline(line) ==
  IF line # <<>> /\ line[Len(line)] = "\n" THEN SubSeq(line, 1, Len(line) - 1) ELSE line

\* The stripped lines a..b of the FASTA file, concatenated.
RECURSIVE StrippedLines(_, _)
StrippedLines(a, b) ==
  IF a > b THEN <<>> ELSE Strip(fasta_lines[a]) \o StrippedLines(a + 1, b)

\* The record of the header line at position h.
RecordAt(h) ==
  [header |-> WithoutNewline(fasta_lines[h]),
   seq    |-> StrippedLines(h + 1, NextHeader(h) - 1)]

\* C4: fasta_records emits one record per header line, in stream order, the
\* header being the line without its trailing newline and the sequence the
\* concatenation of the stripped lines up to the next header or the end;
\* lines before the first header belong to no record.
C4_OneRecordPerHeader ==
  /\ \A k \in 1..Len(records) :
       /\ k <= Cardinality(HeaderIdx)
       /\ records[k] = RecordAt(NthHeader(k))
  /\ exhausted => Len(records) = Cardinality(HeaderIdx)
  /\ ~exhausted =>
       Len(records) = Cardinality({h \in HeaderIdx : NextHeader(h) < fi})

\* The stream "AC", ">x ", "AC", "\tG T ": a line before the first header, a
\* header with a trailing blank, two sequence lines, one with whitespace
\* around and inside.
C4_Witness ==
  /\ exhausted
  /\ Len(fasta_lines) = 4
  /\ HeaderIdx = {2}
  /\ records = <<[header |-> <<">","x"," ">>, seq |-> <<"A","C","G"," ","T">>]>>

\* The candidates of the list lines parse_targets has processed, normalized.
NormalizedOf(c) == IF c.some THEN Normalize(c.val) ELSE None

Accepted ==
  {n.val : n \in {x \in {NormalizedOf(Candidate(list_lines[j])) : j \in 1..(li - 1)} :
                    x.some}}

\* C5: every accepted candidate with a "." is in the versioned set and its
\* substring before the first "." in the unversioned set; one without a "."
\* is in the unversioned set only.  Each member of the versioned set has a
\* "." and its prefix before the first "." in the unversioned set.
C5_VersionedHasPrefix ==
  LET acc == Accepted
  IN  /\ \A c \in acc :
           IF HasDot(c)
             THEN c \in with_version /\ BeforeFirstDot(c) \in no_version
             ELSE c \in no_version /\ c \notin with_version
      /\ \A t \in with_version : HasDot(t) /\ BeforeFirstDot(t) \in no_version
      /\ with_version = {c \in acc : HasDot(c)}
      /\ no_version = {c \in acc : ~HasDot(c)}
                        \cup {BeforeFirstDot(c) : c \in {x \in acc : HasDot(x)}}

\* The lists "v1.2.3", "NC_01": a candidate with two dots and one with none.
C5_Witness ==
  /\ pc = "open_out"
  /\ with_version = {<<"v","1",".","2",".","3">>}
  /\ no_version = {<<"v","1">>, <<"N","C","_","0","1">>}

\* C6: every member of the versioned set has the canonical form and every
\* member of the unversioned set is a canonical accession with the version
\* stripped.
C6_OnlyCanonical ==
  /\ \A t \in with_version : IsAccession(t)
  /\ \A u \in no_version : IsStem(u)

\* The lines of a group after the header.
Chunks(j) == Tail(Group(j))

RECURSIVE ConcatAll(_)
ConcatAll(ss) == IF ss = <<>> THEN <<>> ELSE ss[1] \o ConcatAll(Tail(ss))

\* C7: a matching record is written as its header followed by its sequence
\* in chunks of exactly 60 characters, the last holding the remainder (1 to
\* 60); the chunks concatenate to the sequence; a sequence of length L gives
\* ceil(L/60) lines; nothing else is written.
C7_WrappedAtSixty ==
  /\ \A j \in 1..Len(written) :
       LET r == records[written[j].idx]
           L == Len(r.seq)
           n == Len(Chunks(j))
       IN  /\ Group(j)[1] = r.header
           /\ n = (L + 59) \div 60
           /\ \A c \in 1..n :
                /\ c < n => Len(Chunks(j)[c]) = 60
                /\ c = n => Len(Chunks(j)[c]) = L - 60 * (n - 1)
                /\ Len(Chunks(j)[c]) \in 1..60
           /\ ConcatAll(Chunks(j)) = r.seq
           /\ written[j].start = IF j = 1 THEN 0 ELSE written[j - 1].stop
  /\ failed # "write" =>
       Len(out) = IF written = <<>> THEN 0 ELSE written[Len(written)].stop
  /\ \A k \in Decided : Written(k) <=>
       Match(records[k].header, targets_with_version, targets_no_version, ignore_version)

\* A record with a sequence of 130 characters written as 60, 60 and 10.
C7_Witness ==
  /\ pc = "done"
  /\ Len(written) = 1
  /\ Len(records[1].seq) = 130
  /\ Len(Chunks(1)) = 3
  /\ Len(Chunks(1)[1]) = 60
  /\ Len(Chunks(1)[2]) = 60
  /\ Len(Chunks(1)[3]) = 10

\* C8: a handle opened for a named output path is closed on every exit path
\* after it was opened; standard output, selected by an absent or empty
\* out_path or by "-", is never closed.
C8_OutputClosed ==
  /\ "stdout" \notin closed
  /\ out_fh # "unset" =>
       (out_fh = "stdout" <=> out_path \in {None, Some(<<>>), Some(<<"-">>)})
  /\ (pc \in {"returned", "done", "aborted"} /\ out_fh = "file") => "file" \in closed

\* The FASTA file failed to open after a named output was opened.
C8_Witness ==
  /\ pc = "aborted"
  /\ failed = "fasta"
  /\ fasta_fh = "unopened"
  /\ out_fh = "file"
  /\ "file" \in closed

\* The sets parse_targets builds from lines i.. of the list file.
RECURSIVE TargetsFrom(_, _, _)
TargetsFrom(i, wv, nv) ==
  IF i > Len(list_lines) THEN <<wv, nv>>
  ELSE TargetsFrom(i + 1, ParseOne(list_lines[i], wv, nv).with_version,
                          ParseOne(list_lines[i], wv, nv).no_version)

\* The FASTA stage has begun: the file is open, or a record was read.
FastaBegun == fasta_fh = "open" \/ fi > 1 \/ records # <<>> \/ total > 0 \/ out # <<>>

\* C9: the list file is read to its end and both target sets are complete
\* before the FASTA file is opened or any record is matched or written; the
\* summary is printed only after the whole FASTA pass; after a fatal I/O
\* failure no summary is printed and no later stage runs.
C9_StagesInOrder ==
  /\ FastaBegun =>
       /\ li > Len(list_lines)
       /\ <<targets_with_version, targets_no_version>> = TargetsFrom(1, {}, {})
       /\ out_fh # "unset"
  /\ summary # <<>> =>
       /\ pc = "done"
       /\ failed = "none"
       /\ exhausted
       /\ total = Cardinality(HeaderIdx)
       /\ "fasta" \in closed
  /\ failed # "none" <=> pc = "aborted"
  /\ failed # "none" => summary = <<>>
  /\ failed = "list" => (out_fh = "unset" /\ ~FastaBegun)
  /\ failed = "out" => (out_fh = "unset" /\ ~FastaBegun)
  /\ (failed = "fasta" /\ fasta_fh = "unopened") => ~FastaBegun
  /\ pc = "aborted" => ~ENABLED Next

\* The output failed in the middle of the pass: no summary.
C9_Witness ==
  /\ pc = "aborted"
  /\ failed = "write"
  /\ list_lines # <<>>
  /\ li > Len(list_lines)
  /\ out # <<>>
  /\ summary = <<>>

\* C10: 0 <= kept <= total; total is the number of records read and kept the
\* number written; the records written are a subsequence of the records read,
\* in order; at completion total is the number of header lines, so a FASTA
\* file without header lines reports 0 / 0 and the documented example 1 / 2.
C10_CountsAndOrder ==
  /\ 0 <= kept /\ kept <= total
  /\ total = Len(records) - (IF pc = "body" THEN 1 ELSE 0)
  /\ kept = Len(written) + (IF failed = "write" THEN 1 ELSE 0)
  /\ \A j \in 1..Len(written) :
       /\ written[j].idx \in 1..total
       /\ j > 1 => written[j - 1].idx < written[j].idx
       /\ Group(j)[1] = records[written[j].idx].header
       /\ ConcatAll(Chunks(j)) = records[written[j].idx].seq
       /\ written[j].start = IF j = 1 THEN 0 ELSE written[j - 1].stop
  /\ pc \in {"returned", "done"} => total = Cardinality(HeaderIdx)
  /\ pc = "done" => summary = <<kept, total>>
  /\ (pc = "done" /\ HeaderIdx = {}) => (summary = <<0, 0>> /\ out = <<>>)
  /\ (pc = "done" /\ ignore_version /\ list_lines = ExampleList
        /\ fasta_lines = ExampleFasta) =>
       /\ summary = <<1, 2>>
       /\ out = <<WithoutNewline(ExampleFasta[1]), WithoutNewline(ExampleFasta[2])>>

\* The documented example has run: Kept 1 / 2.
C10_Witness ==
  /\ pc = "done"
  /\ ignore_version
  /\ list_lines = ExampleList
  /\ fasta_lines = ExampleFasta
  /\ summary = <<1, 2>>
  /\ Len(written) = 1

====
